---- MODULE Spec2Model ----
(***************************************************************************)
(* Meta-prompt construction of the Prompt Perfect backend:                 *)
(*   selectRelevantPrinciples  (context-aware principle selection),        *)
(*   detectTaskType            (task classification),                      *)
(*   the meta-prompt sections of POST /api/enhance.                        *)
(*                                                                         *)
(* A JavaScript string is a sequence of one-character strings, so that     *)
(* toLowerCase, String.prototype.includes and the \b...\b regular          *)
(* expressions are computed character by character.  The meta-prompt is a  *)
(* sequence of lines (one entry per appended piece of text).               *)
(***************************************************************************)
EXTENDS Integers, Sequences, FiniteSets, TLC

VARIABLES
    userPrompt,             \* the request text (req.body.prompt)
    docPrinciples,          \* the principles of the stored guide, as fetched
    allPrinciples,          \* the array handed to selectRelevantPrinciples
    relevantPrinciples,     \* what selectRelevantPrinciples returned
    taskType,               \* what detectTaskType returned
    guide_data,             \* data.guide_data of the fetched row
    system_prompt_content,  \* the meta-prompt built so far
    pc,                     \* the step the computation is at
    requests,               \* the /api/enhance invocations: body, local bindings, step, responses
    prompt_guides,          \* the rows of the prompt_guides table
    guidesDir,              \* the guide files of _data/guides, in directory order
    seed                    \* the run of the seed script: mode, step, local bindings

vars == <<userPrompt, docPrinciples, allPrinciples, relevantPrinciples,
          taskType, guide_data, system_prompt_content, pc, requests,
          prompt_guides, guidesDir, seed>>

\* An optional field of a JSON object: Absent when the object has no such
\* field (undefined in JavaScript), Present(v) when it has it with value v.
Absent == <<>>

Present(v) == <<v>>

ValueOf(field) == field[1]

\* No seed script is running: the state of the script between two runs,
\* with the exit code of the last run and the number of runs so far.
NotSeeding ==
    [pc |-> "idle", mode |-> Absent, file |-> 0, insertData |-> Absent,
     exit |-> Absent, runs |-> 0]

\* The value of a result variable before its function has run.
NotRun == "not run"

(***************************************************************************)
(* Bounds of the model.                                                    *)
(***************************************************************************)
\* Longest principles array of a document.
MaxPrinciples == 6

(***************************************************************************)
(* Strings.                                                                *)
(***************************************************************************)
UpperCase ==
    <<"A","B","C","D","E","F","G","H","I","J","K","L","M",
      "N","O","P","Q","R","S","T","U","V","W","X","Y","Z">>

LowerCase ==
    <<"a","b","c","d","e","f","g","h","i","j","k","l","m",
      "n","o","p","q","r","s","t","u","v","w","x","y","z">>

Digits == {"0","1","2","3","4","5","6","7","8","9"}

\* The lower-case letter of each upper-case letter.
LowerOfUpper ==
    [c \in {UpperCase[i] : i \in DOMAIN UpperCase} |->
        LowerCase[CHOOSE i \in DOMAIN UpperCase : UpperCase[i] = c]]

\* String.prototype.toLowerCase, one character.
ToLowerChar(c) == IF c \in DOMAIN LowerOfUpper THEN LowerOfUpper[c] ELSE c

\* String.prototype.toLowerCase.
ToLowerCase(s) == [i \in 1..Len(s) |-> ToLowerChar(s[i])]

\* String.prototype.includes: p occurs in s as a contiguous substring.
Includes(s, p) ==
    \E i \in 0..(Len(s) - Len(p)) : \A k \in 1..Len(p) : s[i + k] = p[k]

(***************************************************************************)
(* Principles.                                                             *)
(***************************************************************************)
\* principle.detection_patterns.some(pattern =>
\*     promptLower.includes(pattern.toLowerCase()))
\* guarded by `if (principle.detection_patterns)`.
IsRelevant(principle, promptLower) ==
    /\ principle.detection_patterns # Absent
    /\ LET patterns == ValueOf(principle.detection_patterns)
       IN  \E k \in DOMAIN patterns :
              Includes(promptLower, ToLowerCase(patterns[k]))

\* { ...principle, matched: true }
MarkMatched(principle) == [principle EXCEPT !.matched = TRUE]

\* The forEach loop: the matched principles, in array order.
RECURSIVE MatchedPrinciples(_, _)
MatchedPrinciples(principles, promptLower) ==
    IF principles = <<>> THEN <<>>
    ELSE LET rest == MatchedPrinciples(Tail(principles), promptLower)
         IN  IF IsRelevant(Head(principles), promptLower)
             THEN <<MarkMatched(Head(principles))>> \o rest
             ELSE rest

\* The default taken as 0 instead of 999: unprioritized principles rank first.
PriorityOrDefault_Zero(principle) ==
    IF principle.priority = Absent THEN 0 ELSE ValueOf(principle.priority)

\* a.priority || 999 : a missing priority and the falsy number 0 give 999.
PriorityOrDefault(principle) ==
    IF principle.priority = Absent \/ ValueOf(principle.priority) = 0
    THEN 999
    ELSE ValueOf(principle.priority)

\* The comparator handed to sort: priorityA - priorityB.
ComparePriority(a, b) == PriorityOrDefault(a) - PriorityOrDefault(b)

\* An unstable sort: an element goes before the elements it ties with.
RECURSIVE InsertSorted_Unstable(_, _)
InsertSorted_Unstable(sorted, x) ==
    IF sorted = <<>> THEN <<x>>
    ELSE LET last == sorted[Len(sorted)]
         IN  IF ComparePriority(last, x) >= 0
             THEN InsertSorted_Unstable(SubSeq(sorted, 1, Len(sorted) - 1), x)
                      \o <<last>>
             ELSE sorted \o <<x>>

\* Array.prototype.sort is stable: an element goes after every element that
\* does not compare greater than it.
RECURSIVE InsertSorted(_, _)
InsertSorted(sorted, x) ==
    IF sorted = <<>> THEN <<x>>
    ELSE LET last == sorted[Len(sorted)]
         IN  IF ComparePriority(last, x) > 0
             THEN InsertSorted(SubSeq(sorted, 1, Len(sorted) - 1), x) \o <<last>>
             ELSE sorted \o <<x>>

RECURSIVE SortPrefix(_, _)
SortPrefix(principles, n) ==
    IF n = 0 THEN <<>>
    ELSE InsertSorted(SortPrefix(principles, n - 1), principles[n])

\* allPrinciples.sort((a, b) => priorityA - priorityB)
SortByPriority(principles) == SortPrefix(principles, Len(principles))

\* relevantPrinciples.find(rp => rp.title === p.title)
FindByTitle(list, title) == \E k \in DOMAIN list : list[k].title = title

\* The filter left out: every ranked principle is a candidate for the fill.
FilterUnmatched_KeepAll(sorted, relevant) == sorted

\* Array.prototype.filter
RECURSIVE FilterUnmatched(_, _)
FilterUnmatched(sorted, relevant) ==
    IF sorted = <<>> THEN <<>>
    ELSE LET rest == FilterUnmatched(Tail(sorted), relevant)
         IN  IF ~FindByTitle(relevant, Head(sorted).title)
             THEN <<Head(sorted)>> \o rest
             ELSE rest

\* Array.prototype.slice(0, n), n >= 0
Slice0(list, n) == SubSeq(list, 1, IF n < Len(list) THEN n ELSE Len(list))

\* The fill also applied at exactly 3 matches (<= 3 for < 3).
FillByPriority_FillAtThree(relevant, sorted) ==
    IF Len(relevant) <= 3
    THEN relevant \o Slice0(FilterUnmatched(sorted, relevant),
                            5 - Len(relevant))
    ELSE relevant

\* The fill stopping at 3 entries.
FillByPriority_FillToThree(relevant, sorted) ==
    IF Len(relevant) < 3
    THEN relevant \o Slice0(FilterUnmatched(sorted, relevant),
                            3 - Len(relevant))
    ELSE relevant

\* The fill made whatever the number of matches, the best priorities first.
FillByPriority_Always(relevant, sorted) ==
    Slice0(FilterUnmatched(sorted, relevant), 5) \o relevant

\* The fill put in front of the matches (unshift for push).
FillByPriority_Prepend(relevant, sorted) ==
    IF Len(relevant) < 3
    THEN Slice0(FilterUnmatched(sorted, relevant), 5 - Len(relevant))
             \o relevant
    ELSE relevant

\* if (relevantPrinciples.length < 3) { push the top priority principles }
FillByPriority(relevant, sorted) ==
    IF Len(relevant) < 3
    THEN relevant \o Slice0(FilterUnmatched(sorted, relevant),
                            5 - Len(relevant))
    ELSE relevant

\* The array sorted in place before the matching loop runs over it.
selectRelevantPrinciples_SortFirst(prompt, principles) ==
    LET promptLower == ToLowerCase(prompt)
        sorted      == SortByPriority(principles)
        relevant    == MatchedPrinciples(sorted, promptLower)
    IN  Slice0(FillByPriority(relevant, sorted), 5)

\* function selectRelevantPrinciples(userPrompt, allPrinciples): its result.
selectRelevantPrinciples(prompt, principles) ==
    LET promptLower == ToLowerCase(prompt)
        relevant    == MatchedPrinciples(principles, promptLower)
        sorted      == SortByPriority(principles)
    IN  Slice0(FillByPriority(relevant, sorted), 5)

(***************************************************************************)
(* Task classification.                                                    *)
(***************************************************************************)
\* \w of a regular expression: [A-Za-z0-9_].
Letters ==
    {UpperCase[i] : i \in DOMAIN UpperCase}
        \cup {LowerCase[i] : i \in DOMAIN LowerCase}

IsWordChar(c) == c \in Letters \/ c \in Digits \/ c = "_"

\* The alternatives of the regular expressions of detectTaskType.
CodeWords ==
    { <<"c","o","d","e">>, <<"f","u","n","c","t","i","o","n">>, <<"a","p","i">>,
      <<"d","e","b","u","g">>, <<"f","i","x">>, <<"s","c","r","i","p","t">>,
      <<"p","r","o","g","r","a","m">>, <<"a","l","g","o","r","i","t","h","m">>, <<"i","m","p","l","e","m","e","n","t">>,
      <<"b","u","g">> }

CodeLanguages ==
    { <<"j","a","v","a","s","c","r","i","p","t">>, <<"p","y","t","h","o","n">>, <<"j","a","v","a">>,
      <<"r","e","a","c","t">>, <<"n","o","d","e">>, <<"s","q","l">>,
      <<"h","t","m","l">>, <<"c","s","s">> }

FormalWords ==
    { <<"w","r","i","t","e">>, <<"e","m","a","i","l">>, <<"d","o","c","u","m","e","n","t">>,
      <<"r","e","p","o","r","t">>, <<"l","e","t","t","e","r">>, <<"m","e","m","o">>,
      <<"p","r","o","p","o","s","a","l">>, <<"e","s","s","a","y">>, <<"a","r","t","i","c","l","e">> }

FormalStyles ==
    { <<"f","o","r","m","a","l">>, <<"p","r","o","f","e","s","s","i","o","n","a","l">>, <<"b","u","s","i","n","e","s","s">>,
      <<"a","c","a","d","e","m","i","c">> }

CreativeWords ==
    { <<"s","t","o","r","y">>, <<"n","a","r","r","a","t","i","v","e">>, <<"p","o","e","m">>,
      <<"c","r","e","a","t","i","v","e">>, <<"f","i","c","t","i","o","n">>, <<"c","h","a","r","a","c","t","e","r">>,
      <<"p","l","o","t">>, <<"d","i","a","l","o","g","u","e">> }

CreativeVerbs ==
    { <<"i","m","a","g","i","n","e">>, <<"i","n","v","e","n","t">>, <<"b","r","a","i","n","s","t","o","r","m">>,
      <<"i","d","e","a","t","e">> }

DataWords ==
    { <<"a","n","a","l","y","z","e">>, <<"d","a","t","a">>, <<"c","s","v">>,
      <<"j","s","o","n">>, <<"s","t","a","t","i","s","t","i","c","s">>, <<"c","h","a","r","t">>,
      <<"g","r","a","p","h">>, <<"e","v","a","l","u","a","t","e">>, <<"c","o","m","p","a","r","e">> }

DataNouns ==
    { <<"d","a","t","a","s","e","t">>, <<"m","e","t","r","i","c","s">>, <<"i","n","s","i","g","h","t","s">>,
      <<"t","r","e","n","d","s">>, <<"v","i","s","u","a","l","i","z","e">> }

ReasoningWords ==
    { <<"r","e","a","s","o","n","i","n","g">>, <<"l","o","g","i","c">>, <<"s","o","l","v","e">>,
      <<"c","a","l","c","u","l","a","t","e">>, <<"m","a","t","h">>, <<"p","r","o","b","l","e","m">>,
      <<"t","h","i","n","k">>, <<"a","n","a","l","y","z","e">> }

\* /\b(w1|w2|...)\b/i.test(s): some alternative occurs in s, compared without
\* regard to case, with no word character right before it and none right
\* after it (every alternative begins and ends with a word character).
RegexWordTest(s, words) ==
    \E w \in words :
        \E i \in 0..(Len(s) - Len(w)) :
            /\ \A k \in 1..Len(w) : ToLowerChar(s[i + k]) = w[k]
            /\ (i = 0 \/ ~IsWordChar(s[i]))
            /\ (i + Len(w) = Len(s) \/ ~IsWordChar(s[i + Len(w) + 1]))

\* The data_analysis rule tried before the code_generation rule.
detectTaskType_DataFirst(prompt) ==
    LET promptLower == ToLowerCase(prompt)
    IN  IF RegexWordTest(promptLower, DataWords)
            \/ RegexWordTest(promptLower, DataNouns)
        THEN "data_analysis"
        ELSE IF RegexWordTest(promptLower, CodeWords)
            \/ RegexWordTest(promptLower, CodeLanguages)
        THEN "code_generation"
        ELSE IF RegexWordTest(promptLower, FormalWords)
            \/ RegexWordTest(promptLower, FormalStyles)
        THEN "formal_writing"
        ELSE IF RegexWordTest(promptLower, CreativeWords)
            \/ RegexWordTest(promptLower, CreativeVerbs)
        THEN "creative_writing"
        ELSE IF RegexWordTest(promptLower, ReasoningWords)
        THEN "reasoning_and_analysis"
        ELSE "general"

\* The final return left out: a request that matches no rule gets undefined.
detectTaskType_NoDefault(prompt) ==
    LET promptLower == ToLowerCase(prompt)
    IN  IF RegexWordTest(promptLower, CodeWords)
            \/ RegexWordTest(promptLower, CodeLanguages)
        THEN "code_generation"
        ELSE IF RegexWordTest(promptLower, FormalWords)
            \/ RegexWordTest(promptLower, FormalStyles)
        THEN "formal_writing"
        ELSE IF RegexWordTest(promptLower, CreativeWords)
            \/ RegexWordTest(promptLower, CreativeVerbs)
        THEN "creative_writing"
        ELSE IF RegexWordTest(promptLower, DataWords)
            \/ RegexWordTest(promptLower, DataNouns)
        THEN "data_analysis"
        ELSE IF RegexWordTest(promptLower, ReasoningWords)
        THEN "reasoning_and_analysis"
        ELSE "undefined"

\* function detectTaskType(userPrompt)
detectTaskType(prompt) ==
    LET promptLower == ToLowerCase(prompt)
    IN  IF RegexWordTest(promptLower, CodeWords)
            \/ RegexWordTest(promptLower, CodeLanguages)
        THEN "code_generation"
        ELSE IF RegexWordTest(promptLower, FormalWords)
            \/ RegexWordTest(promptLower, FormalStyles)
        THEN "formal_writing"
        ELSE IF RegexWordTest(promptLower, CreativeWords)
            \/ RegexWordTest(promptLower, CreativeVerbs)
        THEN "creative_writing"
        ELSE IF RegexWordTest(promptLower, DataWords)
            \/ RegexWordTest(promptLower, DataNouns)
        THEN "data_analysis"
        ELSE IF RegexWordTest(promptLower, ReasoningWords)
        THEN "reasoning_and_analysis"
        ELSE "general"

(***************************************************************************)
(* The meta-prompt.  system_prompt_content is the sequence of the pieces   *)
(* appended to it: a constant text, a numbered title line or a content     *)
(* line.                                                                   *)
(***************************************************************************)
Text(text) == [kind |-> "text", index |-> 0, text |-> text]

\* `${index + 1}. **${principle.title}**\n`
TitleLine(index, title) == [kind |-> "title", index |-> index, text |-> title]

\* `   ${principle.content}\n\n`
ContentLine(content) == [kind |-> "content", index |-> 0, text |-> content]

BaseInstruction ==
    "You are an expert prompt engineer. Refine the user's prompt based on these key principles:\n\n"

StructuralHeader == "Key Structural Guidelines:\n\n"

AntiPatternsHeader == "Common Mistakes to Avoid:\n\n"

ClosingInstruction ==
    "Apply these principles to enhance the user's prompt, making it more specific, structured, and effective for the target AI platform."

\* list.forEach((element, index) => { title line; content line })
RenderItems(list) ==
    [k \in 1..(2 * Len(list)) |->
        IF k % 2 = 1
        THEN TitleLine((k + 1) \div 2, list[(k + 1) \div 2].title)
        ELSE ContentLine(list[k \div 2].content)]

\* guide_data.guide && guide_data.guide.<field>: an array, even an empty
\* one, is truthy.
HasList(data, field) ==
    /\ data.guide # Absent
    /\ ValueOf(data.guide)[field] # Absent

ListOf(data, field) == ValueOf(ValueOf(data.guide)[field])

\* Add the most important principles (top 5)
PrinciplesSection(data) ==
    IF HasList(data, "principles")
    THEN RenderItems(Slice0(ListOf(data, "principles"), 5))
    ELSE <<>>

\* The structural elements cut at 3.
StructuralSection_TopThree(data) ==
    IF HasList(data, "structural_elements")
    THEN <<Text(StructuralHeader)>>
             \o RenderItems(Slice0(ListOf(data, "structural_elements"), 3))
    ELSE <<>>

\* Add key structural elements (top 2)
StructuralSection(data) ==
    IF HasList(data, "structural_elements")
    THEN <<Text(StructuralHeader)>>
             \o RenderItems(Slice0(ListOf(data, "structural_elements"), 2))
    ELSE <<>>

\* Add anti-patterns to avoid (top 3)
AntiPatternsSection(data) ==
    IF HasList(data, "anti_patterns")
    THEN <<Text(AntiPatternsHeader)>>
             \o RenderItems(Slice0(ListOf(data, "anti_patterns"), 3))
    ELSE <<>>

\* The meta-prompt construction of POST /api/enhance.
BuildSystemPrompt(data) ==
    <<Text(BaseInstruction)>>
        \o PrinciplesSection(data)
        \o StructuralSection(data)
        \o AntiPatternsSection(data)
        \o <<Text(ClosingInstruction)>>

(***************************************************************************)
(* The task-specific guide integration: the lines added to the meta-prompt *)
(* construction for the detected task type.                                *)
(***************************************************************************)
TaskGuidesHeader == "\n## Task-Specific Guidelines:\n\n"

ExampleHeader == "   \n   Example Transformation:\n"

\* `   ${guide.content}\n`
TaskContentLine(content) == [kind |-> "task_content", index |-> 0, text |-> content]

\* `   Before: "${guide.example.before}"\n`
BeforeLine(before) == [kind |-> "before", index |-> 0, text |-> before]

\* `   After: "${guide.example.after}"\n`
AfterLine(after) == [kind |-> "after", index |-> 0, text |-> after]

\* The guide rendered without its example.
RenderTaskGuide_NoExample(guide, index) ==
    <<TitleLine(index, guide.title), TaskContentLine(guide.content),
      Text("\n")>>

\* The body of taskGuides.forEach for the guide at position index.
RenderTaskGuide(guide, index) ==
    <<TitleLine(index, guide.title), TaskContentLine(guide.content)>>
        \o (IF guide.example # Absent
            THEN <<Text(ExampleHeader),
                   BeforeLine(ValueOf(guide.example).before),
                   AfterLine(ValueOf(guide.example).after)>>
            ELSE <<>>)
        \o <<Text("\n")>>

\* taskGuides.forEach over the first n guides.
RECURSIVE RenderTaskGuidesPrefix(_, _)
RenderTaskGuidesPrefix(taskGuides, n) ==
    IF n = 0 THEN <<>>
    ELSE RenderTaskGuidesPrefix(taskGuides, n - 1)
             \o RenderTaskGuide(taskGuides[n], n)

RenderTaskGuides(taskGuides) ==
    RenderTaskGuidesPrefix(taskGuides, Len(taskGuides))

\* taskType !== 'general' && guide_data.guide.task_specific_guides: the
\* property read of guide_data.guide throws a TypeError when guide_data has
\* no guide.
TaskGuidesThrows(data, type) ==
    /\ type # "general"
    /\ data.guide = Absent

\* guide_data.guide.task_specific_guides &&
\* guide_data.guide.task_specific_guides[taskType]: an array, even an empty
\* one, is truthy.
HasTaskGuides(data, type) ==
    /\ type # "general"
    /\ ValueOf(data.guide).task_specific_guides # Absent
    /\ ValueOf(ValueOf(data.guide).task_specific_guides)[type] # Absent

TaskGuidesOf(data, type) ==
    ValueOf(ValueOf(ValueOf(data.guide).task_specific_guides)[type])

\* The lines appended for the task type, when the condition does not throw.
TaskGuidesSection(data, type) ==
    IF HasTaskGuides(data, type)
    THEN <<Text(TaskGuidesHeader)>> \o RenderTaskGuides(TaskGuidesOf(data, type))
    ELSE <<>>

\* The anti-patterns added before the structural elements.
SectionsBeforeTaskGuides_AntiPatternsFirst(data) ==
    <<Text(BaseInstruction)>>
        \o PrinciplesSection(data)
        \o AntiPatternsSection(data)
        \o StructuralSection(data)

\* The meta-prompt up to the point where the task-specific guides are added.
SectionsBeforeTaskGuides(data) ==
    <<Text(BaseInstruction)>>
        \o PrinciplesSection(data)
        \o StructuralSection(data)
        \o AntiPatternsSection(data)

\* The meta-prompt with the task-specific guides between the anti-patterns
\* and the closing instruction.
BuildSystemPromptWithTaskGuides(data, type) ==
    SectionsBeforeTaskGuides(data)
        \o TaskGuidesSection(data, type)
        \o <<Text(ClosingInstruction)>>

(***************************************************************************)
(* Inputs.                                                                 *)
(***************************************************************************)
\* Titles are unique within a document: the principle at position i is
\* titled Titles[i].
Titles == <<"A", "B", "C", "D", "E", "F", "G", "H">>

PromptLoginForm ==
    <<"w","r","i","t","e"," ","c","o","d","e"," ","f","o","r"," ","a"," ",
      "l","o","g","i","n"," ","f","o","r","m">>

PromptUnrelated ==
    <<"u","n","r","e","l","a","t","e","d"," ","t","e","x","t">>

PatternWriteCode == <<"w","r","i","t","e"," ","c","o","d","e">>

PatternDashboard == <<"d","a","s","h","b","o","a","r","d">>

PatternLoginForm == <<"L","o","g","i","n"," ","F","o","r","m">>

Principle(i, priority, patterns) ==
    [title |-> Titles[i], content |-> Titles[i], priority |-> priority,
     detection_patterns |-> patterns, matched |-> FALSE]

\* The principles array with the given priority and detection_patterns
\* fields, position by position.
PrincipleList(n, priorities, patterns) ==
    [i \in 1..n |-> Principle(i, priorities[i], patterns[i])]

(***************************************************************************)
(* Principle selection against a request: every document of at most        *)
(* MaxPrinciples principles, each with or without a priority and with      *)
(* no detection_patterns, the pattern of the request, or two patterns of   *)
(* which the second is in the request when lowercased.                     *)
(***************************************************************************)
SelectPriorities == {Absent, Present(1)}

SelectPatterns ==
    { Absent,
      Present(<<PatternWriteCode>>),
      Present(<<PatternDashboard, PatternLoginForm>>) }

InitSelect ==
    /\ userPrompt = PromptLoginForm
    /\ \E n \in 0..MaxPrinciples :
          \E priorities \in [1..n -> SelectPriorities],
             patterns \in [1..n -> SelectPatterns] :
             docPrinciples = PrincipleList(n, priorities, patterns)
    /\ allPrinciples = docPrinciples
    /\ relevantPrinciples = <<>>
    /\ taskType = NotRun
    /\ guide_data = Absent
    /\ system_prompt_content = <<>>
    /\ requests = <<>>
    /\ prompt_guides = <<>>
    /\ guidesDir = <<>>
    /\ seed = NotSeeding
    /\ pc = "select"

\* One call selectRelevantPrinciples(userPrompt, allPrinciples): the result,
\* and the array sorted in place.
SelectRelevantPrinciples ==
    /\ pc = "select"
    /\ relevantPrinciples' = selectRelevantPrinciples(userPrompt, allPrinciples)
    /\ allPrinciples' = SortByPriority(allPrinciples)
    /\ pc' = "selected"
    /\ UNCHANGED <<userPrompt, docPrinciples, taskType, guide_data,
                   system_prompt_content, requests, prompt_guides,
                   guidesDir, seed>>

NextSelect == SelectRelevantPrinciples

SpecSelect == InitSelect /\ [][NextSelect]_vars

(***************************************************************************)
(* The fill and the truncation: every document of at most MaxPrinciples    *)
(* principles, each with or without a priority and with or without the     *)
(* pattern of the request.                                                 *)
(***************************************************************************)
FillPatterns == {Absent, Present(<<PatternWriteCode>>)}

InitFill ==
    /\ userPrompt = PromptLoginForm
    /\ \E n \in 0..MaxPrinciples :
          \E priorities \in [1..n -> SelectPriorities],
             patterns \in [1..n -> FillPatterns] :
             docPrinciples = PrincipleList(n, priorities, patterns)
    /\ allPrinciples = docPrinciples
    /\ relevantPrinciples = <<>>
    /\ taskType = NotRun
    /\ guide_data = Absent
    /\ system_prompt_content = <<>>
    /\ requests = <<>>
    /\ prompt_guides = <<>>
    /\ guidesDir = <<>>
    /\ seed = NotSeeding
    /\ pc = "select"

SpecFill == InitFill /\ [][NextSelect]_vars

(***************************************************************************)
(* Selection for a request that matches nothing: every document of at     *)
(* most MaxPrinciples principles, each with or without a priority and      *)
(* with no detection_patterns or a pattern that is not in the request.     *)
(***************************************************************************)
CompatPatterns == {Absent, Present(<<PatternDashboard>>)}

InitCompat ==
    /\ userPrompt = PromptUnrelated
    /\ \E n \in 0..MaxPrinciples :
          \E priorities \in [1..n -> SelectPriorities],
             patterns \in [1..n -> CompatPatterns] :
             docPrinciples = PrincipleList(n, priorities, patterns)
    /\ allPrinciples = docPrinciples
    /\ relevantPrinciples = <<>>
    /\ taskType = NotRun
    /\ guide_data = Absent
    /\ system_prompt_content = <<>>
    /\ requests = <<>>
    /\ prompt_guides = <<>>
    /\ guidesDir = <<>>
    /\ seed = NotSeeding
    /\ pc = "select"

SpecCompat == InitCompat /\ [][NextSelect]_vars

(***************************************************************************)
(* The priority ranking: every document of at most MaxPrinciples           *)
(* principles without detection_patterns, each with no priority or one of  *)
(* the priorities 0, 1, 2, 999, 1000, and a request that matches nothing.  *)
(***************************************************************************)
RankPriorities ==
    {Absent, Present(0), Present(1), Present(2), Present(999), Present(1000)}

InitRank ==
    /\ userPrompt = PromptUnrelated
    /\ \E n \in 0..MaxPrinciples :
          \E priorities \in [1..n -> RankPriorities] :
             docPrinciples = PrincipleList(n, priorities, [i \in 1..n |-> Absent])
    /\ allPrinciples = docPrinciples
    /\ relevantPrinciples = <<>>
    /\ taskType = NotRun
    /\ guide_data = Absent
    /\ system_prompt_content = <<>>
    /\ requests = <<>>
    /\ prompt_guides = <<>>
    /\ guidesDir = <<>>
    /\ seed = NotSeeding
    /\ pc = "select"

SpecRank == InitRank /\ [][NextSelect]_vars

(***************************************************************************)
(* Task classification on its own: the empty request, every request of at  *)
(* most MaxWords words of ClassifyWords separated by single spaces, and     *)
(* "analyze this code" and the example prompts of the documented table.    *)
(***************************************************************************)
\* Most words of a generated request.
MaxWords == 2

ClassifyWords ==
    { <<"c","o","d","e">>,
      <<"R","e","a","c","t">>,
      <<"w","r","i","t","e">>,
      <<"B","u","s","i","n","e","s","s">>,
      <<"s","t","o","r","y">>,
      <<"b","r","a","i","n","s","t","o","r","m">>,
      <<"d","a","t","a">>,
      <<"t","r","e","n","d","s">>,
      <<"A","n","a","l","y","z","e">>,
      <<"s","o","l","v","e">>,
      <<"h","e","l","l","o">>,
      <<"m","y","_","c","o","d","e">>,
      <<"b","u","g","-","f","r","e","e">> }

PromptAnalyzeThisCode ==
    <<"a","n","a","l","y","z","e"," ","t","h","i","s"," ","c","o","d","e">>

\* Array.prototype.join(" ")
RECURSIVE JoinWords(_)
JoinWords(words) ==
    IF words = <<>> THEN <<>>
    ELSE IF Len(words) = 1 THEN words[1]
    ELSE words[1] \o <<" ">> \o JoinWords(Tail(words))

\* The example prompts of the Task Types Supported table, row by row.
TaskTypeExamples ==
    [ code_generation |->
        { <<"w","r","i","t","e"," ","a"," ","f","u","n","c","t","i","o","n">>,
          <<"d","e","b","u","g"," ","t","h","i","s"," ","c","o","d","e">>,
          <<"c","r","e","a","t","e"," ","R","e","a","c","t"," ","c","o","m","p","o","n","e","n","t">> },
      formal_writing |->
        { <<"w","r","i","t","e"," ","a"," ","b","u","s","i","n","e","s","s"," ","e","m","a","i","l">>,
          <<"c","r","e","a","t","e"," ","a"," ","f","o","r","m","a","l"," ","r","e","p","o","r","t">> },
      creative_writing |->
        { <<"w","r","i","t","e"," ","a"," ","s","t","o","r","y">>,
          <<"c","r","e","a","t","e"," ","a"," ","c","h","a","r","a","c","t","e","r">>,
          <<"b","r","a","i","n","s","t","o","r","m"," ","i","d","e","a","s">> },
      data_analysis |->
        { <<"a","n","a","l","y","z","e"," ","t","h","i","s"," ","d","a","t","a">>,
          <<"c","r","e","a","t","e"," ","a"," ","c","h","a","r","t">>,
          <<"e","v","a","l","u","a","t","e"," ","t","r","e","n","d","s">> },
      reasoning_and_analysis |->
        { <<"s","o","l","v","e"," ","t","h","i","s"," ","p","r","o","b","l","e","m">>,
          <<"c","a","l","c","u","l","a","t","e">>,
          <<"t","h","i","n","k"," ","t","h","r","o","u","g","h"," ","t","h","i","s">> } ]

InitClassify ==
    /\ \/ userPrompt = PromptAnalyzeThisCode
       \/ \E type \in DOMAIN TaskTypeExamples :
             userPrompt \in TaskTypeExamples[type]
       \/ \E n \in 0..MaxWords :
             \E words \in [1..n -> ClassifyWords] :
                userPrompt = JoinWords(words)
    /\ docPrinciples = <<>>
    /\ allPrinciples = <<>>
    /\ relevantPrinciples = <<>>
    /\ taskType = NotRun
    /\ guide_data = Absent
    /\ system_prompt_content = <<>>
    /\ requests = <<>>
    /\ prompt_guides = <<>>
    /\ guidesDir = <<>>
    /\ seed = NotSeeding
    /\ pc = "classify"

\* One call detectTaskType(userPrompt).
DetectTaskType ==
    /\ pc = "classify"
    /\ taskType' = detectTaskType(userPrompt)
    /\ pc' = "classified"
    /\ UNCHANGED <<userPrompt, docPrinciples, allPrinciples,
                   relevantPrinciples, guide_data, system_prompt_content,
                   requests, prompt_guides,
                   guidesDir, seed>>

NextClassify == DetectTaskType

SpecClassify == InitClassify /\ [][NextClassify]_vars

(***************************************************************************)
(* The meta-prompt construction on its own: guide_data without a guide      *)
(* object, and every guide whose principles, structural_elements and       *)
(* anti_patterns are each missing or a list of at most MaxElements          *)
(* entries.                                                                *)
(***************************************************************************)
\* Longest list of a guide.
MaxElements == 4

ElementTitles == <<"T1", "T2", "T3", "T4", "T5", "T6">>

ElementContents == <<"c1", "c2", "c3", "c4", "c5", "c6">>

\* A list of n entries {title, content}.
ElementList(n) ==
    [i \in 1..n |-> [title |-> ElementTitles[i], content |-> ElementContents[i]]]

\* A list field of a guide: missing, or a list of at most MaxElements entries.
OptionalLists == {Absent} \cup {Present(ElementList(n)) : n \in 0..MaxElements}

Guides ==
    [principles : OptionalLists,
     structural_elements : OptionalLists,
     anti_patterns : OptionalLists]

InitCompose ==
    /\ userPrompt = PromptUnrelated
    /\ docPrinciples = <<>>
    /\ allPrinciples = <<>>
    /\ relevantPrinciples = <<>>
    /\ taskType = NotRun
    /\ \/ guide_data = Present([guide |-> Absent])
       \/ \E guide \in Guides : guide_data = Present([guide |-> Present(guide)])
    /\ system_prompt_content = <<>>
    /\ requests = <<>>
    /\ prompt_guides = <<>>
    /\ guidesDir = <<>>
    /\ seed = NotSeeding
    /\ pc = "compose"

\* Lines 78-114 of the handler: the meta-prompt built from data.guide_data.
BuildMetaPrompt ==
    /\ pc = "compose"
    /\ system_prompt_content' = BuildSystemPrompt(ValueOf(guide_data))
    /\ pc' = "composed"
    /\ UNCHANGED <<userPrompt, docPrinciples, allPrinciples,
                   relevantPrinciples, taskType, guide_data, requests,
                   prompt_guides, guidesDir, seed>>

NextCompose == BuildMetaPrompt

SpecCompose == InitCompose /\ [][NextCompose]_vars

(***************************************************************************)
(* The selection and the meta-prompt of the handler for the same request   *)
(* and the same guide: every list of principles of InitFill as the         *)
(* principles of the fetched guide; selectRelevantPrinciples is called on  *)
(* a copy of the list, then the handler builds its meta-prompt from the    *)
(* guide.                                                                  *)
(***************************************************************************)
InitInstruction ==
    /\ userPrompt = PromptLoginForm
    /\ \E n \in 0..MaxPrinciples :
          \E priorities \in [1..n -> SelectPriorities],
             patterns \in [1..n -> FillPatterns] :
             docPrinciples = PrincipleList(n, priorities, patterns)
    /\ allPrinciples = docPrinciples
    /\ relevantPrinciples = <<>>
    /\ taskType = NotRun
    /\ guide_data = Present([guide |-> Present(
           [principles          |-> Present(docPrinciples),
            structural_elements |-> Absent,
            anti_patterns       |-> Absent])])
    /\ system_prompt_content = <<>>
    /\ requests = <<>>
    /\ prompt_guides = <<>>
    /\ guidesDir = <<>>
    /\ seed = NotSeeding
    /\ pc = "select"

\* Lines 78-114 of the handler for the request the selection was made for.
BuildMetaPromptForRequest ==
    /\ pc = "selected"
    /\ system_prompt_content' = BuildSystemPrompt(ValueOf(guide_data))
    /\ pc' = "built"
    /\ UNCHANGED <<userPrompt, docPrinciples, allPrinciples,
                   relevantPrinciples, taskType, guide_data, requests,
                   prompt_guides, guidesDir, seed>>

NextInstruction ==
    \/ SelectRelevantPrinciples
    \/ BuildMetaPromptForRequest

SpecInstruction == InitInstruction /\ [][NextInstruction]_vars

(***************************************************************************)
(* The meta-prompt construction with the task-specific guides: a request   *)
(* of each task type, guide_data without a guide object, and every guide   *)
(* whose three lists are each missing, empty or of MaxElements entries and *)
(* whose task_specific_guides is missing or has, for each task type, no    *)
(* list, an empty list or a list of MaxTaskGuides guides.                  *)
(***************************************************************************)
\* Longest list of task-specific guides.
MaxTaskGuides == 2

\* The keys of task_specific_guides.
TaskGuideKeys ==
    {"code_generation", "formal_writing", "creative_writing", "data_analysis",
     "reasoning_and_analysis"}

TaskGuideTitles ==
    [code_generation        |-> <<"code 1", "code 2", "code 3", "code 4">>,
     formal_writing         |-> <<"formal 1", "formal 2", "formal 3", "formal 4">>,
     creative_writing       |-> <<"creative 1", "creative 2", "creative 3", "creative 4">>,
     data_analysis          |-> <<"data 1", "data 2", "data 3", "data 4">>,
     reasoning_and_analysis |-> <<"reasoning 1", "reasoning 2", "reasoning 3", "reasoning 4">>]

ExampleBefores == <<"before 1", "before 2", "before 3", "before 4">>

ExampleAfters == <<"after 1", "after 2", "after 3", "after 4">>

\* The guide at position i of the list of a task type; the guides at odd
\* positions carry an example.
TaskGuide(type, i) ==
    [title   |-> TaskGuideTitles[type][i],
     content |-> ElementContents[i],
     example |-> IF i % 2 = 1
                 THEN Present([before |-> ExampleBefores[i],
                               after  |-> ExampleAfters[i]])
                 ELSE Absent]

TaskGuideList(type, n) == [i \in 1..n |-> TaskGuide(type, i)]

TaskGuideShapes == {"missing", "empty", "full"}

\* task_specific_guides with, for each task type, the list of that shape.
TaskGuideMap(shapes) ==
    [type \in TaskGuideKeys |->
        IF shapes[type] = "missing" THEN Absent
        ELSE IF shapes[type] = "empty" THEN Present(TaskGuideList(type, 0))
        ELSE Present(TaskGuideList(type, MaxTaskGuides))]

OptionalTaskGuideMaps ==
    {Absent} \cup {Present(TaskGuideMap(shapes)) : shapes \in [TaskGuideKeys -> TaskGuideShapes]}

\* A list of n entries {title, content} of the list field: the content of an
\* entry names the field it is in.
FieldList(field, n) ==
    [i \in 1..n |-> [title |-> ElementTitles[i], content |-> field]]

\* A list field of a guide: missing, empty or of MaxElements entries.
EdgeLists(field) ==
    {Absent, Present(FieldList(field, 0)), Present(FieldList(field, MaxElements))}

\* A request of each task type.
TaskPrompts ==
    { <<"c","o","d","e">>,
      <<"w","r","i","t","e">>,
      <<"s","t","o","r","y">>,
      <<"d","a","t","a">>,
      <<"s","o","l","v","e">>,
      <<"h","e","l","l","o">> }

InitTaskGuides ==
    /\ userPrompt \in TaskPrompts
    /\ docPrinciples = <<>>
    /\ allPrinciples = <<>>
    /\ relevantPrinciples = <<>>
    /\ taskType = NotRun
    /\ \/ guide_data = Present([guide |-> Absent])
       \/ \E principles \in EdgeLists("principles"),
             structural_elements \in EdgeLists("structural_elements"),
             anti_patterns \in EdgeLists("anti_patterns"),
             task_specific_guides \in OptionalTaskGuideMaps :
             guide_data = Present([guide |-> Present(
                 [principles           |-> principles,
                  structural_elements  |-> structural_elements,
                  anti_patterns        |-> anti_patterns,
                  task_specific_guides |-> task_specific_guides])])
    /\ system_prompt_content = <<>>
    /\ requests = <<>>
    /\ prompt_guides = <<>>
    /\ guidesDir = <<>>
    /\ seed = NotSeeding
    /\ pc = "compose_task"

\* The meta-prompt construction with the guide integration: detectTaskType,
\* then the sections; a TypeError thrown by the integration leaves the
\* construction unfinished.
BuildMetaPromptWithTaskGuides ==
    /\ pc = "compose_task"
    /\ taskType' = detectTaskType(userPrompt)
    /\ IF TaskGuidesThrows(ValueOf(guide_data), taskType')
       THEN /\ system_prompt_content' = SectionsBeforeTaskGuides(ValueOf(guide_data))
            /\ pc' = "threw"
       ELSE /\ system_prompt_content' =
                   BuildSystemPromptWithTaskGuides(ValueOf(guide_data), taskType')
            /\ pc' = "composed_task"
    /\ UNCHANGED <<userPrompt, docPrinciples, allPrinciples,
                   relevantPrinciples, guide_data, requests, prompt_guides,
                   guidesDir, seed>>

NextTaskGuides == BuildMetaPromptWithTaskGuides

SpecTaskGuides == InitTaskGuides /\ [][NextTaskGuides]_vars

(***************************************************************************)
(* POST /api/enhance.  An invocation of the handler runs from the request  *)
(* to the guide lookup, from the result of the lookup to the completion    *)
(* call, and from the result of the completion call to the response;       *)
(* between these, other invocations run.  requests[r] holds the request    *)
(* body, the bindings of the invocation (platform, prompt, data, error,    *)
(* guide_data, system_prompt_content, response, the caught error), the     *)
(* query and the completion request it sent, the external calls it made   *)
(* in the order it made them, and the responses it gave.                   *)
(***************************************************************************)
\* Most invocations in progress at once.
MaxRequests == 2

Requests == 1..MaxRequests

\* !platform, for the platform values of the model: a missing field and
\* the empty string are falsy.
NoPlatform(platform) == platform = Absent \/ ValueOf(platform) = ""

\* !prompt: a missing field and the empty string are falsy.
NoPrompt(prompt) == prompt = Absent \/ ValueOf(prompt) = <<>>

\* res.status(status).json({error})
ErrorResponse(status, error) ==
    [status |-> status, error |-> Present(error), details |-> Absent,
     enhanced_prompt |-> Absent]

MissingPlatformResponse ==
    ErrorResponse(400, "Platform is required in the request body")

MissingPromptResponse ==
    ErrorResponse(400, "Prompt is required in the request body")

DatabaseFailureResponse == ErrorResponse(500, "Database query failed")

GuideNotFoundResponse ==
    ErrorResponse(404, "Guide not found for the specified platform")

\* res.status(500).json({error: 'AI model request failed', details})
ModelFailureResponse(details) ==
    [status |-> 500, error |-> Present("AI model request failed"),
     details |-> Present(details), enhanced_prompt |-> Absent]

InternalErrorResponse == ErrorResponse(500, "Internal server error")

\* res.json({enhanced_prompt})
SuccessResponse(enhancedPrompt) ==
    [status |-> 200, error |-> Absent, details |-> Absent,
     enhanced_prompt |-> Present(enhancedPrompt)]

\* .from('prompt_guides').select('guide_data').eq('platform', platform)
MatchingRows(table, platform) ==
    SelectSeq(table, LAMBDA row : row.platform = platform)

\* .maybeSingle(): no row gives data null, one row gives the row, more than
\* one row gives an error.
MaybeSingle(table, platform) ==
    LET rows == MatchingRows(table, platform)
    IN  IF Len(rows) = 0 THEN [data |-> Absent, error |-> Absent]
        ELSE IF Len(rows) = 1
        THEN [data |-> Present([guide_data |-> rows[1].guide_data]),
              error |-> Absent]
        ELSE [data |-> Absent, error |-> Present("multiple rows returned")]

\* What the query resolves to: its result on the table, or an error of the
\* database.
QueryResults(table, platform) ==
    {MaybeSingle(table, platform),
     [data |-> Absent, error |-> Present("connection failed")]}

\* The messages with the prompt in lower case.
Messages_LowerCasePrompt(systemPromptContent, prompt) ==
    [system |-> systemPromptContent, user |-> ToLowerCase(prompt)]

\* The messages of the completion request.
Messages(systemPromptContent, prompt) ==
    [system |-> systemPromptContent, user |-> prompt]

GeneratedTexts == {"enhanced prompt 1", "enhanced prompt 2"}

\* What client.path("/chat/completions").post resolves to: a 200 response
\* with one choice, or a response with another status and an error.
CompletionResponses ==
    {[status |-> "200", choices |-> <<[content |-> text]>>, error |-> Absent] :
        text \in GeneratedTexts}
    \cup {[status |-> "401", choices |-> <<>>, error |-> Present("unauthorized")]}

isUnexpected(response) == response.status # "200"

\* The bindings shared by all invocations.
BindingsScope_Shared(r) == Requests

\* The bindings of one invocation of the handler belong to that invocation:
\* an assignment made while serving r is to r's bindings only.
BindingsScope(r) == {r}

\* The request record with the given fields replaced.
WithFields(request, fields) ==
    [name \in DOMAIN request |->
        IF name \in DOMAIN fields THEN fields[name] ELSE request[name]]

\* requests after a step of invocation r that assigns the bindings and
\* leaves r at the given step with the given call made and responses sent.
AfterStep(r, bindings, own) ==
    [q \in Requests |->
        IF q = r THEN WithFields(WithFields(requests[q], bindings), own)
        ELSE IF q \in BindingsScope(r) THEN WithFields(requests[q], bindings)
        ELSE requests[q]]

\* The response sent and the invocation going on (no return).
Respond_WithoutReturn(r, bindings, response) ==
    AfterStep(r, bindings,
              [responses |-> Append(requests[r].responses, response)])

\* Invocation r ends with the response.
Respond(r, bindings, response) ==
    AfterStep(r, bindings,
              [pc |-> "done", responses |-> Append(requests[r].responses, response)])

NewRequest(body) ==
    [body |-> body, pc |-> "received",
     platform |-> Absent, prompt |-> Absent,
     data |-> Absent, error |-> Absent, guide_data |-> Absent,
     system_prompt_content |-> <<>>,
     query |-> Absent, sent |-> Absent, response |-> Absent, caught |-> Absent,
     calls |-> <<>>,
     responses |-> <<>>]

RequestPlatforms ==
    {Absent, Present(""), Present("Claude Sonnet 4"), Present("GPT 5"),
     Present("Gemini 2.5"), Present("Llama 3")}

RequestPrompts ==
    {Absent, Present(<<>>), Present(<<"c","o","d","e">>),
     Present(<<"H","e","l","l","o">>)}

RequestBodies == [platform : RequestPlatforms, prompt : RequestPrompts]

\* The table: a guide for "Claude Sonnet 4", a guide_data without a guide
\* object for "GPT 5", a row whose guide_data is null for "Gemini 2.5", and
\* nothing for "Llama 3".
SeededGuides ==
    << [platform |-> "Claude Sonnet 4", version |-> "1.0",
        guide_data |-> Present([guide |-> Present(
            [principles          |-> Present(FieldList("principles", 1)),
             structural_elements |-> Present(FieldList("structural_elements", 1)),
             anti_patterns       |-> Absent])])],
       [platform |-> "GPT 5", version |-> "1.0",
        guide_data |-> Present([guide |-> Absent])],
       [platform |-> "Gemini 2.5", version |-> "1.0",
        guide_data |-> Absent] >>

InitHandler ==
    /\ userPrompt = <<>>
    /\ docPrinciples = <<>>
    /\ allPrinciples = <<>>
    /\ relevantPrinciples = <<>>
    /\ taskType = NotRun
    /\ guide_data = Absent
    /\ system_prompt_content = <<>>
    /\ pc = "serving"
    /\ \E bodies \in [Requests -> RequestBodies] :
          requests = [r \in Requests |-> NewRequest(bodies[r])]
    /\ prompt_guides = SeededGuides
    /\ guidesDir = <<>>
    /\ seed = NotSeeding

\* The variables of the single computations, which the handler leaves alone.
computationVars ==
    <<userPrompt, docPrinciples, allPrinciples, relevantPrinciples, taskType,
      guide_data, system_prompt_content, pc>>

\* No validation.
Validate_None(platform, prompt) == Absent

\* The prompt validated before the platform.
Validate_PromptFirst(platform, prompt) ==
    IF NoPrompt(prompt) THEN Present(MissingPromptResponse)
    ELSE IF NoPlatform(platform) THEN Present(MissingPlatformResponse)
    ELSE Absent

\* The two validations, in the order the handler makes them: the response
\* of a request that fails one, Absent for a request that passes both.
Validate(platform, prompt) ==
    IF NoPlatform(platform) THEN Present(MissingPlatformResponse)
    ELSE IF NoPrompt(prompt) THEN Present(MissingPromptResponse)
    ELSE Absent

\* From the request to the guide lookup: the body is destructured, the two
\* validations are made and the query is sent.
ReceiveRequest(r) ==
    /\ requests[r].pc = "received"
    /\ LET body     == requests[r].body
           bindings == [platform |-> body.platform, prompt |-> body.prompt]
           invalid  == Validate(body.platform, body.prompt)
       IN  requests' =
               IF invalid # Absent
               THEN Respond(r, bindings, ValueOf(invalid))
               ELSE AfterStep(r, bindings,
                              [pc |-> "lookup", query |-> body.platform,
                               calls |-> Append(requests[r].calls, "lookup")])
    /\ UNCHANGED <<computationVars, prompt_guides, guidesDir, seed>>

\* guide_data.guide read of a guide_data that is null: a TypeError, which
\* the catch block answers.
ConstructionThrows(guideData) == guideData = Absent

\* The meta-prompt is built from the row and the completion request is
\* sent.
CallCompletion(r, bindings) ==
    LET guideData           == ValueOf(ValueOf(bindings.data).guide_data)
        systemPromptContent == BuildSystemPrompt(guideData)
    IN  AfterStep(r,
                  bindings @@ [guide_data |-> Present(guideData),
                               system_prompt_content |-> systemPromptContent],
                  [pc    |-> "completion",
                   sent  |-> Present(Messages(systemPromptContent,
                                              ValueOf(requests[r].prompt))),
                   calls |-> Append(requests[r].calls, "completion")])

\* From the result of the guide lookup to the completion call.
LookupReturns(r) ==
    /\ requests[r].pc = "lookup"
    /\ \E result \in QueryResults(prompt_guides, ValueOf(requests[r].query)) :
          LET bindings == [data |-> result.data, error |-> result.error]
          IN  requests' =
                  IF result.error # Absent
                  THEN Respond(r, bindings, DatabaseFailureResponse)
                  ELSE IF result.data = Absent
                  THEN Respond(r, bindings, GuideNotFoundResponse)
                  ELSE IF ConstructionThrows(ValueOf(result.data).guide_data)
                  THEN Respond(r, bindings @@ [caught |-> Present("TypeError")],
                               InternalErrorResponse)
                  ELSE CallCompletion(r, bindings)
    /\ UNCHANGED <<computationVars, prompt_guides, guidesDir, seed>>

\* The query rejects: the catch block answers.
LookupThrows(r) ==
    /\ requests[r].pc = "lookup"
    /\ requests' = Respond(r, [caught |-> Present("lookup rejected")],
                           InternalErrorResponse)
    /\ UNCHANGED <<computationVars, prompt_guides, guidesDir, seed>>

\* From the result of the completion call to the response.
CompletionReturns(r) ==
    /\ requests[r].pc = "completion"
    /\ \E response \in CompletionResponses :
          LET bindings == [response |-> Present(response)]
          IN  requests' =
                  IF isUnexpected(response)
                  THEN Respond(r, bindings,
                               ModelFailureResponse(ValueOf(response.error)))
                  ELSE Respond(r, bindings,
                               SuccessResponse(response.choices[1].content))
    /\ UNCHANGED <<computationVars, prompt_guides, guidesDir, seed>>

\* The completion call rejects: the catch block answers.
CompletionThrows(r) ==
    /\ requests[r].pc = "completion"
    /\ requests' = Respond(r, [caught |-> Present("completion rejected")],
                           InternalErrorResponse)
    /\ UNCHANGED <<computationVars, prompt_guides, guidesDir, seed>>

NextHandler ==
    \E r \in Requests :
        \/ ReceiveRequest(r)
        \/ LookupReturns(r)
        \/ LookupThrows(r)
        \/ CompletionReturns(r)
        \/ CompletionThrows(r)

SpecHandler == InitHandler /\ [][NextHandler]_vars

(***************************************************************************)
(* The seed script (_data/seed.js) and the table it fills.                 *)
(***************************************************************************)
\* How many times the seed script is run.
MaxSeedRuns == 3

GuideVersions == {"1.0", "2.0"}

\* The guide object of a guide file: the three lists. The object has no
\* field named guide, which reads as undefined.
GuideObject ==
    [guide               |-> Absent,
     principles          |-> Present(FieldList("principles", MaxElements)),
     structural_elements |-> Present(FieldList("structural_elements", MaxElements)),
     anti_patterns       |-> Present(FieldList("anti_patterns", MaxElements))]

\* A parsed guide file {platform, version, guide}.
GuideFile(name, platform, version) ==
    [name |-> name, platform |-> platform, version |-> version,
     guide |-> Present(GuideObject)]

\* What _data/guides can hold: the guide files of two platforms, or the
\* directory without gemini_guide.json.
GuideDirectories ==
    {<<GuideFile("claude_guide.json", "Claude Sonnet 4", "1.0"),
       GuideFile("gemini_guide.json", "Gemini 2.5", version)>> :
        version \in GuideVersions}
    \cup {<<GuideFile("claude_guide.json", "Claude Sonnet 4", "1.0")>>}

\* fs.existsSync(geminiGuidePath)
GeminiGuideExists(dir) ==
    \E i \in DOMAIN dir : dir[i].name = "gemini_guide.json"

\* JSON.parse(fs.readFileSync(geminiGuidePath, 'utf8'))
GeminiGuide(dir) ==
    dir[CHOOSE i \in DOMAIN dir : dir[i].name = "gemini_guide.json"]

\* insertData = {platform, version, guide_data: guideData.guide}
InsertData(guideData) ==
    [platform   |-> guideData.platform,
     version    |-> guideData.version,
     guide_data |-> guideData.guide]

\* .select('id').eq('platform', platform).eq('version', version)
MatchingVersions(table, platform, version) ==
    {i \in DOMAIN table :
        table[i].platform = platform /\ table[i].version = version}

\* .single(): exactly one row gives the row, no row and more than one row
\* give data null and an error.
Single(table, platform, version) ==
    LET rows == MatchingVersions(table, platform, version)
    IN  IF Cardinality(rows) = 1
        THEN [data |-> Present([id |-> CHOOSE i \in rows : TRUE]),
              error |-> Absent]
        ELSE [data |-> Absent, error |-> Present("multiple (or no) rows returned")]

\* What the check resolves to: its result on the table, or an error of the
\* database.
SingleResults(table, platform, version) ==
    {Single(table, platform, version),
     [data |-> Absent, error |-> Present("connection failed")]}

\* process.exit(code): the run is over.
Exit(code) ==
    [NotSeeding EXCEPT !.exit = Present(code), !.runs = seed.runs + 1]

\* The loop of seedAllGuides at file i: past the last file the run ends
\* with exit code 0, otherwise insertData is prepared and the check is
\* sent.
ProcessFile(i) ==
    IF i > Len(guidesDir)
    THEN Exit(0)
    ELSE [seed EXCEPT !.pc = "check", !.mode = Present("all"), !.file = i,
                      !.insertData = Present(InsertData(guidesDir[i])),
                      !.exit = Absent]

\* Step 1 of "Updating Prompt Guides": a guide file gets another version.
EditGuideFile ==
    /\ seed.pc = "idle"
    /\ \E i \in DOMAIN guidesDir, version \in GuideVersions :
          /\ version # guidesDir[i].version
          /\ guidesDir' = [guidesDir EXCEPT ![i].version = version]
    /\ UNCHANGED <<computationVars, requests, prompt_guides, seed>>

\* The script without --all: seedPromptGuides up to its insert.
RunSeedPromptGuides ==
    /\ seed.pc = "idle"
    /\ seed.runs < MaxSeedRuns
    /\ seed' =
          IF ~GeminiGuideExists(guidesDir)
          THEN Exit(1)
          ELSE [seed EXCEPT !.pc = "insert", !.mode = Present("default"),
                            !.insertData =
                                Present(InsertData(GeminiGuide(guidesDir))),
                            !.exit = Absent]
    /\ UNCHANGED <<computationVars, requests, prompt_guides, guidesDir>>

\* The script with --all: seedAllGuides up to the check of the first file.
RunSeedAllGuides ==
    /\ seed.pc = "idle"
    /\ seed.runs < MaxSeedRuns
    /\ seed' = ProcessFile(1)
    /\ UNCHANGED <<computationVars, requests, prompt_guides, guidesDir>>

\* seedAllGuides from the result of the check: `existing` skips the file,
\* otherwise the insert is sent.
CheckReturns ==
    /\ seed.pc = "check"
    /\ \E result \in SingleResults(prompt_guides,
                                   ValueOf(seed.insertData).platform,
                                   ValueOf(seed.insertData).version) :
          seed' = IF result.data # Absent
                  THEN ProcessFile(seed.file + 1)
                  ELSE [seed EXCEPT !.pc = "insert"]
    /\ UNCHANGED <<computationVars, requests, prompt_guides, guidesDir>>

\* The insert succeeds: the table has the row; seedPromptGuides ends and
\* seedAllGuides goes on with the next file.
InsertReturns ==
    /\ seed.pc = "insert"
    /\ prompt_guides' = Append(prompt_guides, ValueOf(seed.insertData))
    /\ seed' = IF seed.mode = Present("default")
               THEN Exit(0)
               ELSE ProcessFile(seed.file + 1)
    /\ UNCHANGED <<computationVars, requests, guidesDir>>

\* The insert fails: seedPromptGuides throws and the script exits with 1,
\* seedAllGuides logs the error and goes on with the next file.
InsertFails ==
    /\ seed.pc = "insert"
    /\ seed' = IF seed.mode = Present("default")
               THEN Exit(1)
               ELSE ProcessFile(seed.file + 1)
    /\ UNCHANGED <<computationVars, requests, prompt_guides, guidesDir>>

\* The requests made while the table is seeded: the first for a platform
\* of the guide files, the others without a platform.
SeedRequestBody(r) ==
    [platform |-> IF r = 1 THEN Present("Gemini 2.5") ELSE Absent,
     prompt   |-> Present(<<"c","o","d","e">>)]

\* An empty table, the guide files, and the requests to come.
InitSeed ==
    /\ userPrompt = <<>>
    /\ docPrinciples = <<>>
    /\ allPrinciples = <<>>
    /\ relevantPrinciples = <<>>
    /\ taskType = NotRun
    /\ guide_data = Absent
    /\ system_prompt_content = <<>>
    /\ pc = "seeding"
    /\ requests = [r \in Requests |-> NewRequest(SeedRequestBody(r))]
    /\ prompt_guides = <<>>
    /\ guidesDir \in GuideDirectories
    /\ seed = NotSeeding

NextSeed ==
    \/ EditGuideFile
    \/ RunSeedPromptGuides
    \/ RunSeedAllGuides
    \/ CheckReturns
    \/ InsertReturns
    \/ InsertFails
    \/ NextHandler

SpecSeed == InitSeed /\ [][NextSeed]_vars

(***************************************************************************)
(* Properties of the principle selection.                                  *)
(***************************************************************************)
Selected == pc = "selected"

\* The principle matches the request of this run.
Matches(principle) == IsRelevant(principle, ToLowerCase(userPrompt))

\* How many principles of the document match the request.
MatchedCount ==
    Cardinality({i \in DOMAIN docPrinciples : Matches(docPrinciples[i])})

\* Where the principle with this title stands in a list.
IndexOfTitle(list, title) == CHOOSE k \in DOMAIN list : list[k].title = title

TitlesOf(list) == [k \in DOMAIN list |-> list[k].title]

\* C1 as stated: for a document of at least 5 principles the selection has
\* exactly 5 entries, however many principles match.
C1_ExactlyFive ==
    (Selected /\ Len(docPrinciples) >= 5) => Len(relevantPrinciples) = 5

\* C1 amended: for a document of at least 5 principles the selection has
\* exactly 5 entries when fewer than 3 or at least 5 principles match, and
\* exactly the matched principles (3 or 4 entries) when 3 or 4 match.
C1_FiveUnlessThreeOrFourMatch ==
    (Selected /\ Len(docPrinciples) >= 5) =>
        Len(relevantPrinciples) =
            (IF MatchedCount \in {3, 4} THEN MatchedCount ELSE 5)

C1_Witness ==
    /\ Selected
    /\ Len(docPrinciples) > 5
    /\ MatchedCount = 2
    /\ Len(relevantPrinciples) = 5

\* C2: the selection never holds two entries with the same title, matched
\* or filled.
C2_NoDuplicateTitles ==
    Selected =>
        \A i, j \in DOMAIN relevantPrinciples :
            relevantPrinciples[i].title = relevantPrinciples[j].title => i = j

C2_Witness ==
    /\ Selected
    /\ Len(relevantPrinciples) = 5
    /\ \E i, j \in DOMAIN relevantPrinciples :
          /\ Matches(relevantPrinciples[i])
          /\ ~Matches(relevantPrinciples[j])

\* C3: in the selection no unmatched (priority-filled) principle stands
\* before a matched one, and the matched ones stand in document order.
\* Stated on neighbours: an entry before a matched entry is matched and comes
\* earlier in the document (both relations are transitive).
C3_MatchedFirstInDocumentOrder ==
    Selected =>
        \A j \in 2..Len(relevantPrinciples) :
            Matches(relevantPrinciples[j]) =>
                /\ Matches(relevantPrinciples[j - 1])
                /\ IndexOfTitle(docPrinciples, relevantPrinciples[j - 1].title)
                     < IndexOfTitle(docPrinciples, relevantPrinciples[j].title)

\* Two matches without priority, after them a fill that has a priority, and
\* a prioritized match that the ranking moves to the front of the array.
C3_Witness ==
    /\ Selected
    /\ MatchedCount = 2
    /\ Len(relevantPrinciples) >= 3
    /\ relevantPrinciples[1].priority = Absent
    /\ relevantPrinciples[2].priority = Present(1)
    /\ relevantPrinciples[3].priority = Present(1)
    /\ ~Matches(relevantPrinciples[3])
    /\ allPrinciples # docPrinciples

\* C4 as stated: in the ranking every principle with an explicit priority
\* stands before every principle without a priority field.
C4_PrioritizedBeforeUnprioritized ==
    Selected =>
        \A i, j \in DOMAIN allPrinciples :
            (allPrinciples[i].priority # Absent
                /\ allPrinciples[j].priority = Absent) => i < j

\* C5: the ranking is stable: two principles with the same priority, or both
\* without one, stand in the ranking in their document order.
C5_StableRanking ==
    Selected =>
        \A i, j \in DOMAIN docPrinciples :
            (i < j /\ docPrinciples[i].priority = docPrinciples[j].priority) =>
                IndexOfTitle(allPrinciples, docPrinciples[i].title)
                    < IndexOfTitle(allPrinciples, docPrinciples[j].title)

\* Two ties, one with and one without priority, in a ranking that moved
\* something.
C5_Witness ==
    /\ Selected
    /\ allPrinciples # docPrinciples
    /\ \E i, j \in DOMAIN docPrinciples :
          i < j /\ docPrinciples[i].priority = Present(2)
                /\ docPrinciples[j].priority = Present(2)
    /\ \E i, j \in DOMAIN docPrinciples :
          i < j /\ docPrinciples[i].priority = Absent
                /\ docPrinciples[j].priority = Absent

\* The document of scenario A: A (priority 1), B (priority 2), C, D, E, F.
ScenarioA ==
    /\ Len(docPrinciples) = 6
    /\ docPrinciples[1].priority = Present(1)
    /\ docPrinciples[2].priority = Present(2)
    /\ \A i \in 3..6 : docPrinciples[i].priority = Absent

\* C6: scenario A with a request that matches no pattern selects
\* A, B, C, D, E in this order.
C6_ScenarioA ==
    (Selected /\ ScenarioA /\ MatchedCount = 0) =>
        TitlesOf(relevantPrinciples) = <<"A", "B", "C", "D", "E">>

C6_Witness ==
    /\ Selected
    /\ ScenarioA
    /\ userPrompt = PromptUnrelated
    /\ Len(relevantPrinciples) = 5

\* "write code" is one of the principle's detection patterns.
HasWriteCodePattern(principle) ==
    /\ principle.detection_patterns # Absent
    /\ \E k \in DOMAIN ValueOf(principle.detection_patterns) :
          ValueOf(principle.detection_patterns)[k] = PatternWriteCode

\* C7 as stated: for the request "write code for a login form" the principle
\* whose detection patterns include "write code" is first in the selection.
C7_WriteCodePrincipleFirst ==
    (Selected /\ userPrompt = PromptLoginForm) =>
        \A i \in DOMAIN docPrinciples :
            (/\ HasWriteCodePattern(docPrinciples[i])
             /\ \A j \in DOMAIN docPrinciples :
                   HasWriteCodePattern(docPrinciples[j]) => j = i)
            => relevantPrinciples[1].title = docPrinciples[i].title

\* C7 amended: for that request a principle whose detection patterns include
\* "write code" is first in the selection when no principle before it in the
\* document matches the request, whatever the priorities.
C7_WriteCodeFirstUnlessEarlierMatch ==
    (Selected /\ userPrompt = PromptLoginForm) =>
        \A i \in DOMAIN docPrinciples :
            HasWriteCodePattern(docPrinciples[i]) =>
                \/ relevantPrinciples[1].title = docPrinciples[i].title
                \/ \E j \in 1..(i - 1) : Matches(docPrinciples[j])

\* The last principle of six is the only match and has no priority, the
\* first one has a priority; the match is first.
C7_Witness ==
    /\ Selected
    /\ userPrompt = PromptLoginForm
    /\ Len(docPrinciples) = 6
    /\ MatchedCount = 1
    /\ HasWriteCodePattern(docPrinciples[6])
    /\ docPrinciples[6].priority = Absent
    /\ docPrinciples[1].priority = Present(1)
    /\ relevantPrinciples[1].title = "F"

(***************************************************************************)
(* Properties of the task classification.                                  *)
(***************************************************************************)
Classified == pc = "classified"

TaskCategories ==
    {"code_generation", "formal_writing", "creative_writing", "data_analysis",
     "reasoning_and_analysis", "general"}

\* The rules as a table: the categories in the order they are tried.
CategoryOrder ==
    <<"code_generation", "formal_writing", "creative_writing", "data_analysis",
      "reasoning_and_analysis">>

\* The keywords of a category: the alternatives of its regular expressions.
KeywordsOf(category) ==
    CASE category = "code_generation" -> CodeWords \cup CodeLanguages
      [] category = "formal_writing" -> FormalWords \cup FormalStyles
      [] category = "creative_writing" -> CreativeWords \cup CreativeVerbs
      [] category = "data_analysis" -> DataWords \cup DataNouns
      [] category = "reasoning_and_analysis" -> ReasoningWords

\* The request contains a keyword of the category as a whole word.
ContainsKeywordOf(category) ==
    RegexWordTest(ToLowerCase(userPrompt), KeywordsOf(category))

\* C8: detectTaskType answers every request with one of the six categories,
\* and the empty request with general.
C8_ClassifyTotal ==
    Classified =>
        /\ taskType \in TaskCategories
        /\ userPrompt = <<>> => taskType = "general"

C8_Witness ==
    /\ Classified
    /\ userPrompt = <<>>
    /\ taskType = "general"

\* C9: the category is the earliest one in the fixed order of which the
\* request contains a keyword, general when it contains none, and
\* "analyze this code" is code_generation.
C9_FirstMatchWins ==
    Classified =>
        /\ \A k \in DOMAIN CategoryOrder :
              (/\ ContainsKeywordOf(CategoryOrder[k])
               /\ \A h \in 1..(k - 1) : ~ContainsKeywordOf(CategoryOrder[h]))
              => taskType = CategoryOrder[k]
        /\ (\A k \in DOMAIN CategoryOrder : ~ContainsKeywordOf(CategoryOrder[k]))
              => taskType = "general"
        /\ userPrompt = PromptAnalyzeThisCode => taskType = "code_generation"

\* "analyze this code" holds keywords of code_generation, data_analysis and
\* reasoning_and_analysis.
C9_Witness ==
    /\ Classified
    /\ userPrompt = PromptAnalyzeThisCode
    /\ ContainsKeywordOf("code_generation")
    /\ ContainsKeywordOf("data_analysis")
    /\ ContainsKeywordOf("reasoning_and_analysis")
    /\ taskType = "code_generation"

\* C21 as stated: every example prompt of the Task Types Supported table is
\* classified to the task type of its own row.
C21_TableExamplesClassified ==
    Classified =>
        \A type \in DOMAIN TaskTypeExamples :
            userPrompt \in TaskTypeExamples[type] => taskType = type

(***************************************************************************)
(* Properties of the meta-prompt.                                          *)
(***************************************************************************)
Composed == pc = "composed"

\* The constant text is one of the pieces of the meta-prompt.
HasText(text) ==
    \E k \in DOMAIN system_prompt_content :
        system_prompt_content[k] = Text(text)

\* The guide's list field is missing (with the guide object or alone) or
\* holds no element.
EmptyOrAbsent(field) ==
    \/ ValueOf(guide_data).guide = Absent
    \/ ValueOf(ValueOf(guide_data).guide)[field] = Absent
    \/ ValueOf(ValueOf(ValueOf(guide_data).guide)[field]) = <<>>

\* C10 as stated: the meta-prompt has no "Key Structural Guidelines:" header
\* when structural_elements is absent and when it is present with zero
\* elements.
C10_NoStructuralHeaderWhenEmptyOrAbsent ==
    (Composed /\ EmptyOrAbsent("structural_elements")) =>
        ~HasText(StructuralHeader)

(***************************************************************************)
(* Properties of the meta-prompt with the task-specific guides.            *)
(***************************************************************************)
ComposedWithTaskGuides == pc = "composed_task"

\* task_specific_guides[taskType] is missing (with the guide object, with
\* task_specific_guides or alone) or holds no guide.
TaskGuidesEmptyOrAbsent ==
    \/ taskType \notin TaskGuideKeys
    \/ ValueOf(guide_data).guide = Absent
    \/ ValueOf(ValueOf(guide_data).guide).task_specific_guides = Absent
    \/ ValueOf(ValueOf(ValueOf(guide_data).guide).task_specific_guides)[taskType] = Absent
    \/ TaskGuidesOf(ValueOf(guide_data), taskType) = <<>>

\* C11 as stated: the "Common Mistakes to Avoid:" header is in the
\* meta-prompt only if anti_patterns exists with at least one element, the
\* "Task-Specific Guidelines" header only if the task type is not general
\* and task_specific_guides[taskType] exists with at least one guide.
C11_HeadersOnlyForNonEmptyLists ==
    ComposedWithTaskGuides =>
        /\ HasText(AntiPatternsHeader) => ~EmptyOrAbsent("anti_patterns")
        /\ HasText(TaskGuidesHeader) =>
               (taskType # "general" /\ ~TaskGuidesEmptyOrAbsent)

\* The place in the fixed order of the section a piece of the meta-prompt
\* belongs to: 1 preamble, 2 principles, 3 structural guidelines,
\* 4 anti-patterns, 5 task-specific guidelines, 6 closing sentence; 0 for a
\* piece that does not name its section (a numbered title, a blank line).
SectionOf(piece) ==
    IF piece = Text(BaseInstruction) THEN 1
    ELSE IF piece = ContentLine("principles") THEN 2
    ELSE IF piece \in {Text(StructuralHeader), ContentLine("structural_elements")} THEN 3
    ELSE IF piece \in {Text(AntiPatternsHeader), ContentLine("anti_patterns")} THEN 4
    ELSE IF \/ piece \in {Text(TaskGuidesHeader), Text(ExampleHeader)}
            \/ piece.kind \in {"task_content", "before", "after"} THEN 5
    ELSE IF piece = Text(ClosingInstruction) THEN 6
    ELSE 0

PositionsOf(section) ==
    {k \in DOMAIN system_prompt_content : SectionOf(system_prompt_content[k]) = section}

\* C13: in a composed meta-prompt the preamble is the first piece and the
\* closing sentence the last, each occurring once, and no piece of a section
\* comes before a piece of a section earlier in the order preamble,
\* principles, structural guidelines, anti-patterns, task-specific
\* guidelines, closing sentence.
C13_FixedSectionOrder ==
    ComposedWithTaskGuides =>
        /\ PositionsOf(1) = {1}
        /\ PositionsOf(6) = {Len(system_prompt_content)}
        /\ \A i, j \in DOMAIN system_prompt_content :
              (/\ i < j
               /\ SectionOf(system_prompt_content[i]) # 0
               /\ SectionOf(system_prompt_content[j]) # 0)
                  => SectionOf(system_prompt_content[i]) <= SectionOf(system_prompt_content[j])

\* A meta-prompt with all six sections.
C13_Witness ==
    /\ ComposedWithTaskGuides
    /\ \A section \in 1..6 : PositionsOf(section) # {}

\* The guide object, or one of the lists expected in it, is missing from
\* guide_data.
GuideOrListMissing ==
    \/ ValueOf(guide_data).guide = Absent
    \/ \E field \in {"principles", "structural_elements", "anti_patterns",
                     "task_specific_guides"} :
          ValueOf(ValueOf(guide_data).guide)[field] = Absent
    \/ \E type \in TaskGuideKeys :
          ValueOf(ValueOf(ValueOf(guide_data).guide).task_specific_guides)[type] = Absent

\* C15 as stated: with the guide object or any expected list missing, the
\* meta-prompt construction raises no error, for every task type.
C15_MissingListsNeverFatal ==
    GuideOrListMissing => pc # "threw"

(***************************************************************************)
(* Properties of POST /api/enhance.                                        *)
(***************************************************************************)
Done(r) == requests[r].pc = "done" /\ requests[r].responses # <<>>

\* The response the invocation gave.
ResponseOf(r) == requests[r].responses[1]

BothFields(r) ==
    /\ ~NoPlatform(requests[r].body.platform)
    /\ ~NoPrompt(requests[r].body.prompt)

\* The lookup of the invocation came back without an error and without a
\* row.
NoDocument(r) ==
    /\ BothFields(r)
    /\ requests[r].pc = "done"
    /\ requests[r].caught = Absent
    /\ requests[r].error = Absent
    /\ MatchingRows(prompt_guides, ValueOf(requests[r].body.platform)) = <<>>

\* C16: a request without platform gets the missing-platform response (also
\* when the prompt is missing too), a request with platform and without
\* prompt the missing-prompt response, a request with both fields whose
\* lookup finds no row the guide-not-found response; the 400 responses are
\* given only to invalid requests and the 404 response only to a request
\* with both fields whose lookup found no row, not to one whose lookup
\* failed.
C16_ValidationOutcomes ==
    \A r \in Requests :
        Done(r) =>
            /\ NoPlatform(requests[r].body.platform) =>
                   ResponseOf(r) = MissingPlatformResponse
            /\ (/\ ~NoPlatform(requests[r].body.platform)
                /\ NoPrompt(requests[r].body.prompt)) =>
                   ResponseOf(r) = MissingPromptResponse
            /\ NoDocument(r) <=> ResponseOf(r) = GuideNotFoundResponse
            /\ ResponseOf(r).status = 400 <=> ~BothFields(r)
            /\ ResponseOf(r).status = 404 <=> NoDocument(r)
            /\ requests[r].error # Absent =>
                   ResponseOf(r) = DatabaseFailureResponse

\* One request without platform and without prompt answered, another with
\* both fields answered 404.
C16_Witness ==
    \E r, q \in Requests :
        /\ Done(r)
        /\ requests[r].body.platform = Absent
        /\ requests[r].body.prompt = Absent
        /\ ResponseOf(r) = MissingPlatformResponse
        /\ Done(q)
        /\ BothFields(q)
        /\ ResponseOf(q) = GuideNotFoundResponse

\* The row of the table for the platform of the request.
GuideDataOf(r) ==
    ValueOf(ValueOf(MaybeSingle(prompt_guides,
                                ValueOf(requests[r].body.platform)).data).guide_data)

\* The completion call of the invocation resolved with status 200.
CompletionSucceeded(r) ==
    /\ requests[r].sent # Absent
    /\ requests[r].response # Absent
    /\ ValueOf(requests[r].response).status = "200"

\* C17: the completion request carries the meta-prompt built from the row
\* as system message and the prompt of the request body as user message;
\* the response is the 200 response with the generated text exactly when
\* the completion call resolved with status 200, and a 500 response when it
\* resolved with another status or rejected.
C17_CompletionContract ==
    \A r \in Requests :
        /\ requests[r].sent # Absent =>
               /\ ValueOf(requests[r].sent).system = BuildSystemPrompt(GuideDataOf(r))
               /\ ValueOf(requests[r].sent).user = ValueOf(requests[r].body.prompt)
        /\ Done(r) =>
               /\ ResponseOf(r).status = 200 <=> CompletionSucceeded(r)
               /\ CompletionSucceeded(r) =>
                      ResponseOf(r) =
                          SuccessResponse(ValueOf(requests[r].response).choices[1].content)
               /\ (requests[r].sent # Absent /\ ~CompletionSucceeded(r)) =>
                      /\ ResponseOf(r).status = 500
                      /\ ResponseOf(r).error # Absent

\* One request answered with the generated text, another with the error of
\* the completion call, both for a prompt with an upper-case letter.
C17_Witness ==
    \E r, q \in Requests :
        /\ Done(r)
        /\ requests[r].body.prompt = Present(<<"H","e","l","l","o">>)
        /\ CompletionSucceeded(r)
        /\ Done(q)
        /\ requests[q].body.prompt = Present(<<"H","e","l","l","o">>)
        /\ requests[q].response # Absent
        /\ isUnexpected(ValueOf(requests[q].response))
        /\ ResponseOf(q) = ModelFailureResponse("unauthorized")

\* The responses a request with this body can get when it is served alone.
ResponsesAlone(body) ==
    IF Validate(body.platform, body.prompt) # Absent
    THEN {ValueOf(Validate(body.platform, body.prompt))}
    ELSE {DatabaseFailureResponse, InternalErrorResponse}
         \cup (IF MatchingRows(prompt_guides, ValueOf(body.platform)) = <<>>
               THEN {GuideNotFoundResponse}
               ELSE {ModelFailureResponse(ValueOf(response.error)) :
                        response \in {c \in CompletionResponses : isUnexpected(c)}}
                    \cup {SuccessResponse(response.choices[1].content) :
                             response \in {c \in CompletionResponses : ~isUnexpected(c)}})

\* C18: whatever the other invocations did in between, the bindings of an
\* invocation are those of its own request, the meta-prompt it built and
\* sent is the one of its own row and prompt, and its response is one the
\* request gets when served alone, carrying the result of its own
\* completion call.
C18_IsolatedRequests ==
    \A r \in Requests :
        /\ requests[r].pc # "received" =>
               /\ requests[r].platform = requests[r].body.platform
               /\ requests[r].prompt = requests[r].body.prompt
        /\ requests[r].pc = "received" =>
               /\ requests[r].system_prompt_content = <<>>
               /\ requests[r].data = Absent
        /\ requests[r].sent # Absent =>
               /\ requests[r].guide_data = Present(GuideDataOf(r))
               /\ requests[r].system_prompt_content = BuildSystemPrompt(GuideDataOf(r))
               /\ requests[r].sent =
                      Present(Messages(BuildSystemPrompt(GuideDataOf(r)),
                                       ValueOf(requests[r].body.prompt)))
        /\ Done(r) =>
               /\ ResponseOf(r) \in ResponsesAlone(requests[r].body)
               /\ Len(requests[r].responses) = 1

\* Two requests for different platforms and with different prompts, both
\* suspended at their completion call at the same time with different
\* meta-prompts sent.
C18_Witness ==
    \E r, q \in Requests :
        /\ requests[r].body.platform = Present("Claude Sonnet 4")
        /\ requests[q].body.platform = Present("GPT 5")
        /\ requests[r].body.prompt # requests[q].body.prompt
        /\ requests[r].pc = "completion"
        /\ requests[q].pc = "completion"
        /\ ValueOf(requests[r].sent).system # ValueOf(requests[q].sent).system

(***************************************************************************)
(* Further properties of the principle selection.                          *)
(***************************************************************************)
\* C14 as stated: after selectRelevantPrinciples returns, the principles
\* array passed to it holds the same elements in the same order as before
\* the call.
C14_InputUnchanged ==
    Selected => allPrinciples = docPrinciples

\* Where the principle with the title of relevantPrinciples[k] stands in
\* the array as sorted by the call.
RankOf(k) == IndexOfTitle(allPrinciples, relevantPrinciples[k].title)

\* The positions in the document of the principles that match the request.
MatchingIndices ==
    {i \in DOMAIN docPrinciples : Matches(docPrinciples[i])}

\* C19: when fewer than 3 principles match, the selection has min(5, number
\* of principles) entries; the entries after the matches are principles of
\* the sorted array whose title is not a matched one, they stand in the
\* order of the sorted array, and no such principle standing in the sorted
\* array before one of them is left out.
C19_FillFromRanking ==
    Selected =>
        \A m \in {Cardinality(MatchingIndices)} :
            m < 3 =>
                /\ Len(relevantPrinciples) =
                       (IF Len(docPrinciples) < 5 THEN Len(docPrinciples) ELSE 5)
                /\ \A k \in 1..m : relevantPrinciples[k].matched
                /\ \A k \in (m + 1)..Len(relevantPrinciples) :
                      /\ relevantPrinciples[k] = allPrinciples[RankOf(k)]
                      /\ \A j \in 1..m :
                            relevantPrinciples[j].title # relevantPrinciples[k].title
                      /\ k > m + 1 => RankOf(k - 1) < RankOf(k)
                      /\ \A i \in 1..(RankOf(k) - 1) :
                            \E j \in 1..(k - 1) :
                                relevantPrinciples[j].title = allPrinciples[i].title

\* Two principles match, the fourth and the sixth of six; the three appended
\* are the third, prioritized, then the first and the second.
C19_Witness ==
    /\ Selected
    /\ Len(docPrinciples) = 6
    /\ MatchedCount = 2
    /\ docPrinciples[3].priority = Present(1)
    /\ TitlesOf(relevantPrinciples) = <<"D", "F", "C", "A", "B">>

\* Where the principle with the title of relevantPrinciples[k] stands in
\* the document.
DocumentIndexOf(k) == IndexOfTitle(docPrinciples, relevantPrinciples[k].title)

\* C20: the selection never has more than 5 entries and is empty for an
\* empty document; when 5 or more principles match it is 5 entries, each
\* the matched copy of a matching principle, in document order, with no
\* matching principle standing before one of them in the document left out.
C20_FirstFiveMatched ==
    Selected =>
        /\ Len(relevantPrinciples) <= 5
        /\ docPrinciples = <<>> => relevantPrinciples = <<>>
        /\ \A matching \in {MatchingIndices} :
              Cardinality(matching) >= 5 =>
                  /\ Len(relevantPrinciples) = 5
                  /\ \A k \in 1..5 :
                        /\ DocumentIndexOf(k) \in matching
                        /\ relevantPrinciples[k] =
                               MarkMatched(docPrinciples[DocumentIndexOf(k)])
                        /\ k > 1 => DocumentIndexOf(k - 1) < DocumentIndexOf(k)
                  /\ \A i \in matching :
                        i < DocumentIndexOf(5) =>
                            \E k \in 1..4 : DocumentIndexOf(k) = i

\* Five principles without priority match and the one that does not, the
\* second of the document, has priority 1: it is not in the selection.
C20_Witness ==
    /\ Selected
    /\ Len(docPrinciples) = 6
    /\ MatchedCount = 5
    /\ ~Matches(docPrinciples[2])
    /\ docPrinciples[2].priority = Present(1)
    /\ \A i \in {1, 3, 4, 5, 6} : docPrinciples[i].priority = Absent
    /\ TitlesOf(relevantPrinciples) = <<"A", "C", "D", "E", "F">>

\* C22: when no principle has a priority and no detection pattern is in
\* the request, the selection is the first 5 principles of the document in
\* document order, what slice(0, 5) gave.
C22_BackwardCompatible ==
    (/\ Selected
     /\ \A i \in DOMAIN docPrinciples : docPrinciples[i].priority = Absent
     /\ MatchingIndices = {})
        => relevantPrinciples = Slice0(docPrinciples, 5)

\* Six principles without priority, some with a pattern that is not in the
\* request: the selection is the first five.
C22_Witness ==
    /\ Selected
    /\ Len(docPrinciples) = 6
    /\ \A i \in DOMAIN docPrinciples : docPrinciples[i].priority = Absent
    /\ docPrinciples[1].detection_patterns # Absent
    /\ docPrinciples[6].detection_patterns = Absent
    /\ MatchingIndices = {}
    /\ TitlesOf(relevantPrinciples) = <<"A", "B", "C", "D", "E">>

(***************************************************************************)
(* Further properties of the meta-prompt.                                  *)
(***************************************************************************)
\* The section of the list field, when the guide has the list: its header
\* is followed by the first entries of the list up to the limit, in list
\* order, each as the title line numbered from 1 and the content line, and
\* then by a constant text, the next header or the closing instruction.
SectionRendersFirst(field, header, limit) ==
    (~EmptyOrAbsent(field)) =>
        \E h \in DOMAIN system_prompt_content :
            /\ system_prompt_content[h] = Text(header)
            /\ LET list  == ListOf(ValueOf(guide_data), field)
                   shown == IF Len(list) < limit THEN Len(list) ELSE limit
               IN  /\ \A i \in 1..shown :
                         /\ system_prompt_content[h + 2 * i - 1] =
                                TitleLine(i, list[i].title)
                         /\ system_prompt_content[h + 2 * i] =
                                ContentLine(list[i].content)
                   /\ system_prompt_content[h + 2 * shown + 1].kind = "text"

\* C23: the structural section is the first min(2, n) structural elements
\* and the anti-pattern section the first min(3, n) anti-patterns, in list
\* order, numbered from 1 in each section, and nothing more of the list.
C23_SectionLimits ==
    Composed =>
        /\ SectionRendersFirst("structural_elements", StructuralHeader, 2)
        /\ SectionRendersFirst("anti_patterns", AntiPatternsHeader, 3)

\* Both lists longer than their limit and one list shorter than its limit.
C23_Witness ==
    /\ Composed
    /\ ~EmptyOrAbsent("structural_elements")
    /\ ~EmptyOrAbsent("anti_patterns")
    /\ Len(ListOf(ValueOf(guide_data), "structural_elements")) = 1
    /\ Len(ListOf(ValueOf(guide_data), "anti_patterns")) > 3
    /\ Len(system_prompt_content) > 9

\* The guides of the detected task type.
TaskGuidesOfRequest == TaskGuidesOf(ValueOf(guide_data), taskType)

\* The numbered title lines of the meta-prompt after position h.
TitleLinesAfter(h) ==
    SelectSeq(SubSeq(system_prompt_content, h + 1, Len(system_prompt_content)),
              LAMBDA piece : piece.kind = "title")

C25_PrinciplesSectionIsSelection ==
    pc = "built" =>
        SubSeq(system_prompt_content, 2, Len(system_prompt_content) - 1)
            = RenderItems(relevantPrinciples)

(***************************************************************************)
(* Further properties of POST /api/enhance.                                *)
(***************************************************************************)
\* C26: the external calls of an invocation are the guide lookup, made only
\* for a request with both fields, and then the completion call, made at
\* most once and only after the lookup gave a row without error; an
\* invocation answered with a 400, a 404 or the database-failure 500 made
\* no completion call.
C26_ExternalCallOrder ==
    \A r \in Requests :
        /\ requests[r].calls \in {<<>>, <<"lookup">>, <<"lookup", "completion">>}
        /\ requests[r].calls # <<>> => BothFields(r)
        /\ Len(requests[r].calls) = 2 =>
               /\ requests[r].error = Absent
               /\ requests[r].data # Absent
               /\ requests[r].data = MaybeSingle(prompt_guides,
                                                 ValueOf(requests[r].body.platform)).data
        /\ (/\ Done(r)
            /\ \/ ResponseOf(r).status \in {400, 404}
               \/ ResponseOf(r) = DatabaseFailureResponse) =>
               Len(requests[r].calls) < 2

\* One invocation answered 404 after its lookup, another answered after
\* its lookup and its completion call.
C26_Witness ==
    \E r, q \in Requests :
        /\ Done(r)
        /\ ResponseOf(r) = GuideNotFoundResponse
        /\ requests[r].calls = <<"lookup">>
        /\ Done(q)
        /\ requests[q].calls = <<"lookup", "completion">>
        /\ ResponseOf(q).status = 200

\* C27: an invocation has sent no response while it runs and exactly one
\* when it has ended, on every path; an invocation that caught an exception
\* (of the lookup, of the meta-prompt construction or of the completion
\* call) has ended with the 500 'Internal server error' response.
C27_ExactlyOneResponse ==
    \A r \in Requests :
        /\ Len(requests[r].responses) <= 1
        /\ requests[r].pc = "done" <=> Len(requests[r].responses) = 1
        /\ requests[r].caught # Absent =>
               /\ requests[r].pc = "done"
               /\ requests[r].responses = <<InternalErrorResponse>>

\* Two ended invocations: one whose meta-prompt construction threw and one
\* answered with the generated text.
C27_Witness ==
    \E r, q \in Requests :
        /\ requests[r].pc = "done"
        /\ requests[r].caught = Present("TypeError")
        /\ requests[r].calls = <<"lookup">>
        /\ requests[q].pc = "done"
        /\ Len(requests[q].responses) = 1
        /\ requests[q].responses[1].status = 200

(***************************************************************************)
(* Properties of the seed script.                                          *)
(***************************************************************************)
\* The table has a row of the pair.
PairPresent(table, platform, version) ==
    MatchingVersions(table, platform, version) # {}

\* C28: a step of seedAllGuides that adds a row adds a row whose (platform,
\* version) pair no row of the table had before the step.
C28_NeverInsertsPresentPair ==
    [][(seed.mode = Present("all") /\ prompt_guides' # prompt_guides) =>
           ~PairPresent(prompt_guides,
                        ValueOf(seed.insertData).platform,
                        ValueOf(seed.insertData).version)]_vars

\* The platforms of the guide files.
GuidePlatforms == {"Claude Sonnet 4", "Gemini 2.5"}

\* C29: the table holds at most one row per platform, and no lookup by
\* platform of a request got the error of several matching rows.
C29_OneRowPerPlatform ==
    /\ \A platform \in GuidePlatforms :
           Len(MatchingRows(prompt_guides, platform)) <= 1
    /\ \A r \in Requests :
           requests[r].error # Present("multiple rows returned")

\* The first entries of the list up to the limit are in the instruction
\* text, each as its numbered title line followed by its content line.
Renders(text, list, limit) ==
    \A i \in 1..(IF Len(list) < limit THEN Len(list) ELSE limit) :
        \E k \in DOMAIN text :
            /\ text[k] = TitleLine(i, list[i].title)
            /\ k + 1 \in DOMAIN text
            /\ text[k + 1] = ContentLine(list[i].content)

\* C30: a request that found the row the seed script inserted for its
\* platform and built its instruction text has the three lists of the guide
\* file in the text, up to the section limits.
C30_SeedThenEnhance ==
    \A r \in Requests :
        requests[r].sent # Absent =>
            LET text  == ValueOf(requests[r].sent).system
                guide == ValueOf(GeminiGuide(guidesDir).guide)
            IN  /\ Renders(text, ValueOf(guide.principles), 5)
                /\ Renders(text, ValueOf(guide.structural_elements), 2)
                /\ Renders(text, ValueOf(guide.anti_patterns), 3)

====
